---------------------------- MODULE Spec2Model ----------------------------
(***************************************************************************)
(* The E-Eco three-tier scheduler of src/Scheduler.cpp as a state machine. *)
(* One action per simulator callback; each action runs the whole handler.  *)
(* The simulator (Machine_*, VM_*, task oracle) is the environment: its    *)
(* records are state, and each of its calls may be refused (throw).        *)
(***************************************************************************)
EXTENDS Integers, Sequences, FiniteSets, TLC

\* ------------------------------------------------------------ constants
MAX_RUNNING == 12
MIN_RUNNING == 8
STANDBY_SIZE == 4
\* UINT_MAX (4294967295) is only the "none yet" value of best_vm and lowest_tasks:
\* above every handle and every task count. TLC's integers end at 2^31 - 1.
UINT_MAX == 2147483647

\* ------------------------------------------------------------ bounds
\* Tasks that arrive in one run.
MaxTasks == 2
\* VM_Migrate requests accepted by the simulator in one run.
MaxMigrations == 1
\* Callbacks of one run in which the simulator refuses a call.
MaxFailures == 1
\* Memory warnings are delivered for hosts 0..MaxWarnHost.
MaxWarnHost == 2
\* VM_Migrate requests accepted in one run of the migration specification.
MaxInFlight == 3
\* Tasks that arrive in one run of the tier specification.
MaxTierTasks == 3
\* Largest fleet of the family of the start-up specification.
MaxHosts == 20

\* ------------------------------------------------------------ helpers
Min(a, b) == IF a < b THEN a ELSE b

Range(s) == {s[i] : i \in 1..Len(s)}

\* s without its element at position i (vector::erase)
RemoveAt(s, i) == [j \in 1..(Len(s) - 1) |-> IF j < i THEN s[j] ELSE s[j + 1]]

\* a sequence of n copies of x
Rep(n, x) == [i \in 1..n |-> x]

NoHost == -1

\* ------------------------------------------------------------ state
VARIABLES
  phase,          \* "constructed", "running", "done", "crashed"
  fleet,          \* the simulator's hosts: fleet[h + 1] is host h
  tasks,          \* the workload oracle: tasks[t] is the requirement of task t
  vmInfo,         \* the simulator's VMs: vmInfo[v + 1] is what VM_GetInfo(v) returns
  sstate,         \* the S-state last requested for each host
  transitioning,  \* hosts with a state change requested and not yet completed
  nMig,           \* VM_Migrate requests the simulator has accepted
  nFail,          \* callbacks in which the simulator has refused a call
  flaky,          \* the hosts and VMs for which the simulator may refuse a call
  budget,         \* the bounds of this run: tasks, migrations, refusals
  vms,            \* Scheduler::vms
  migrating_vms,  \* Scheduler::migrating_vms
  running_tier,   \* Scheduler::running_tier
  standby_tier,   \* Scheduler::standby_tier
  off_tier,       \* Scheduler::off_tier
  cmds,           \* the simulator commands the last callback issued, in order
  ev              \* the last callback and what it read

vars == <<phase, fleet, tasks, vmInfo, sstate, transitioning, nMig, nFail,
          flaky, budget, vms,
          migrating_vms, running_tier, standby_tier, off_tier, cmds, ev>>

Hosts == 0..(Len(fleet) - 1)

\* ------------------------------------------------------------ simulator
\* The part of the program state a handler works on.
World == [vms |-> vms, migrating_vms |-> migrating_vms,
          running_tier |-> running_tier, standby_tier |-> standby_tier,
          off_tier |-> off_tier, vmInfo |-> vmInfo, sstate |-> sstate,
          transitioning |-> transitioning, cmds |-> <<>>, failed |-> FALSE,
          crashed |-> FALSE, ub |-> FALSE, note |-> "none"]

\* A call of the simulator is refused (throws) when its call site and target
\* are in the callback's refusal set F.
Fails(F, site, target) == <<site, target>> \in F

\* A refused call: nothing changes in the simulator.
Refused(w) == [w EXCEPT !.failed = TRUE]

Log(w, c) == [w EXCEPT !.cmds = Append(@, c)]

Machine_GetTotal == Len(fleet)

Machine_GetCPUType(h) == fleet[h + 1].cpu

NewVMId(w) == Len(w.vmInfo)

VM_GetInfo(w, v) == w.vmInfo[v + 1]

\* Machine_SetState(h, s): the request is recorded; completion comes later
\* with StateChangeComplete(h).
Machine_SetState(w, h, s, ok) ==
  LET w1 == Log(w, [op |-> "SetState", host |-> h, s |-> s, ok |-> ok])
  IN  IF ok
      THEN [w1 EXCEPT !.sstate[h + 1] = s, !.transitioning = @ \cup {h}]
      ELSE Refused(w1)

\* VM_Create(vm_type, cpu): a fresh handle, attached nowhere, no tasks.
VM_Create(w, vm_type, cpu, ok) ==
  LET w1 == Log(w, [op |-> "Create", vm |-> NewVMId(w), vm_type |-> vm_type,
                    cpu |-> cpu, ok |-> ok])
  IN  IF ok
      THEN [w1 EXCEPT !.vmInfo = Append(@, [vm_type |-> vm_type, cpu |-> cpu,
                                           machine_id |-> NoHost, dest |-> NoHost,
                                           active_tasks |-> {}, shut |-> FALSE])]
      ELSE Refused(w1)

\* The logged request records whether h was in running_tier when it was made.
VM_Attach(w, v, h, ok) ==
  LET w1 == Log(w, [op |-> "Attach", vm |-> v, host |-> h, ok |-> ok,
                    running |-> h \in Range(w.running_tier)])
  IN  IF ok THEN [w1 EXCEPT !.vmInfo[v + 1].machine_id = h] ELSE Refused(w1)

VM_AddTask(w, v, t, prio, ok) ==
  LET w1 == Log(w, [op |-> "AddTask", vm |-> v, task |-> t, prio |-> prio, ok |-> ok])
  IN  IF ok THEN [w1 EXCEPT !.vmInfo[v + 1].active_tasks = @ \cup {t}]
      ELSE Refused(w1)

\* VM_Migrate(v, dest): the VM stays on its host until MigrationDone(v).
VM_Migrate(w, v, dest, ok) ==
  LET w1 == Log(w, [op |-> "Migrate", vm |-> v, host |-> dest, ok |-> ok,
                    running |-> dest \in Range(w.running_tier)])
  IN  IF ok THEN [w1 EXCEPT !.vmInfo[v + 1].dest = dest] ELSE Refused(w1)

VM_Shutdown(w, v, ok) ==
  LET w1 == Log(w, [op |-> "Shutdown", vm |-> v, ok |-> ok])
  IN  IF ok THEN [w1 EXCEPT !.vmInfo[v + 1].shut = TRUE] ELSE Refused(w1)

Machine_SetCorePerformance(w, h, core, p, ok) ==
  LET w1 == Log(w, [op |-> "SetPerf", host |-> h, core |-> core, p |-> p, ok |-> ok])
  IN  IF ok THEN w1 ELSE Refused(w1)

\* ------------------------------------------------------------ Scheduler::Init
\* InitRunning with a LINUX VM on every host.
RECURSIVE InitRunningLinux(_, _, _, _, _)
InitRunningLinux(w, F, total, i, active_count) ==
  IF ~(i < total /\ active_count < MAX_RUNNING)
  THEN [w |-> w, active_count |-> active_count]
  ELSE IF Fails(F, "L38", i)
  THEN InitRunningLinux(Refused(w), F, total, i + 1, active_count)
  ELSE
    LET cpu == Machine_GetCPUType(i)
        w1 == [w EXCEPT !.running_tier = Append(@, i)]
        vm == NewVMId(w1)
        w2 == VM_Create(w1, "LINUX", cpu, ~Fails(F, "L50", i))
        w3 == VM_Attach(w2, vm, i, ~Fails(F, "L51", i))
        w4 == [w3 EXCEPT !.vms = Append(@, vm)]
    IN  IF Fails(F, "L50", i) THEN InitRunningLinux(w2, F, total, i + 1, active_count + 1)
        ELSE IF Fails(F, "L51", i) THEN InitRunningLinux(w3, F, total, i + 1, active_count + 1)
        ELSE InitRunningLinux(w4, F, total, i + 1, active_count + 1)

\* InitRunning with running_tier.push_back(i) moved after VM_Attach.
RECURSIVE InitRunningAttachFirst(_, _, _, _, _)
InitRunningAttachFirst(w, F, total, i, active_count) ==
  IF ~(i < total /\ active_count < MAX_RUNNING)
  THEN [w |-> w, active_count |-> active_count]
  ELSE IF Fails(F, "L38", i)
  THEN InitRunningAttachFirst(Refused(w), F, total, i + 1, active_count)
  ELSE
    LET cpu == Machine_GetCPUType(i)
        vm_type == IF cpu = "POWER" THEN "AIX" ELSE "LINUX"
        vm == NewVMId(w)
        w2 == VM_Create(w, vm_type, cpu, ~Fails(F, "L50", i))
        w3 == VM_Attach(w2, vm, i, ~Fails(F, "L51", i))
        w4 == [w3 EXCEPT !.vms = Append(@, vm)]
        Push(x) == [x EXCEPT !.running_tier = Append(@, i)]
    IN  IF Fails(F, "L50", i)
        THEN InitRunningAttachFirst(Push(w2), F, total, i + 1, active_count + 1)
        ELSE IF Fails(F, "L51", i)
        THEN InitRunningAttachFirst(Push(w3), F, total, i + 1, active_count + 1)
        ELSE InitRunningAttachFirst(Push(w4), F, total, i + 1, active_count + 1)

\* for (i = 0; i < total && active_count < MAX_RUNNING; i++): the running tier
RECURSIVE InitRunning(_, _, _, _, _)
InitRunning(w, F, total, i, active_count) ==
  IF ~(i < total /\ active_count < MAX_RUNNING)
  THEN [w |-> w, active_count |-> active_count]
  ELSE IF Fails(F, "L38", i)
  THEN InitRunning(Refused(w), F, total, i + 1, active_count)
  ELSE
    LET cpu == Machine_GetCPUType(i)
        w1 == [w EXCEPT !.running_tier = Append(@, i)]
        vm_type == IF cpu = "POWER" THEN "AIX" ELSE "LINUX"
        vm == NewVMId(w1)
        w2 == VM_Create(w1, vm_type, cpu, ~Fails(F, "L50", i))
        w3 == VM_Attach(w2, vm, i, ~Fails(F, "L51", i))
        w4 == [w3 EXCEPT !.vms = Append(@, vm)]
    IN  IF Fails(F, "L50", i) THEN InitRunning(w2, F, total, i + 1, active_count + 1)
        ELSE IF Fails(F, "L51", i) THEN InitRunning(w3, F, total, i + 1, active_count + 1)
        ELSE InitRunning(w4, F, total, i + 1, active_count + 1)

\* for (i = active_count; i < total && i < active_count + STANDBY_SIZE; i++)
RECURSIVE InitStandby(_, _, _, _, _)
InitStandby(w, F, total, i, active_count) ==
  IF ~(i < total /\ i < active_count + STANDBY_SIZE) THEN w
  ELSE LET w1 == [w EXCEPT !.standby_tier = Append(@, i)]
           w2 == Machine_SetState(w1, i, "S1", ~Fails(F, "L69", i))
       IN  InitStandby(w2, F, total, i + 1, active_count)

\* for (i = active_count + standby_tier.size(); i < total; i++)
RECURSIVE InitOff(_, _, _, _)
InitOff(w, F, total, i) ==
  IF ~(i < total) THEN w
  ELSE LET w1 == [w EXCEPT !.off_tier = Append(@, i)]
           w2 == Machine_SetState(w1, i, "S5", ~Fails(F, "L86", i))
       IN  InitOff(w2, F, total, i + 1)

SchedulerInit(w, F) ==
  IF Fails(F, "L26", 0) THEN Refused(w)
  ELSE LET total == Machine_GetTotal
           r == InitRunning(w, F, total, 0, 0)
           w1 == InitStandby(r.w, F, total, r.active_count, r.active_count)
       IN  InitOff(w1, F, total, r.active_count + Len(w1.standby_tier))

\* ------------------------------------------------------------ Scheduler::NewTask
\* Set priority based on SLA
PriorityOf(sla) ==
  IF sla = "SLA0" THEN "HIGH_PRIORITY"
  ELSE IF sla = "SLA1" THEN "MID_PRIORITY"
  ELSE "LOW_PRIORITY"

\* FindBest without the test of migrating_vms.
RECURSIVE FindBestNoGuard(_, _, _, _, _, _, _)
FindBestNoGuard(w, F, k, required_cpu, required_vm, best_vm, lowest_tasks) ==
  IF k > Len(w.vms) THEN [w |-> w, best_vm |-> best_vm]
  ELSE
    LET vm_id == w.vms[k]
        info == VM_GetInfo(w, vm_id)
    IN  IF Fails(F, "L141", vm_id)
        THEN FindBestNoGuard(Refused(w), F, k + 1, required_cpu, required_vm, best_vm,
                             lowest_tasks)
        ELSE IF /\ info.cpu = required_cpu
                /\ info.vm_type = required_vm
                /\ Cardinality(info.active_tasks) < lowest_tasks
        THEN FindBestNoGuard(w, F, k + 1, required_cpu, required_vm, vm_id,
                             Cardinality(info.active_tasks))
        ELSE FindBestNoGuard(w, F, k + 1, required_cpu, required_vm, best_vm,
                             lowest_tasks)

\* FindBest with <= for <: the last VM wins a tie.
RECURSIVE FindBestLast(_, _, _, _, _, _, _)
FindBestLast(w, F, k, required_cpu, required_vm, best_vm, lowest_tasks) ==
  IF k > Len(w.vms) THEN [w |-> w, best_vm |-> best_vm]
  ELSE
    LET vm_id == w.vms[k]
        info == VM_GetInfo(w, vm_id)
    IN  IF vm_id \in w.migrating_vms
        THEN FindBestLast(w, F, k + 1, required_cpu, required_vm, best_vm, lowest_tasks)
        ELSE IF Fails(F, "L141", vm_id)
        THEN FindBestLast(Refused(w), F, k + 1, required_cpu, required_vm, best_vm,
                          lowest_tasks)
        ELSE IF /\ info.cpu = required_cpu
                /\ info.vm_type = required_vm
                /\ Cardinality(info.active_tasks) <= lowest_tasks
        THEN FindBestLast(w, F, k + 1, required_cpu, required_vm, vm_id,
                          Cardinality(info.active_tasks))
        ELSE FindBestLast(w, F, k + 1, required_cpu, required_vm, best_vm, lowest_tasks)

\* First loop over vms: the non-migrating VM of the required CPU and VM type
\* with the fewest active tasks; k is the position in vms.
RECURSIVE FindBest(_, _, _, _, _, _, _)
FindBest(w, F, k, required_cpu, required_vm, best_vm, lowest_tasks) ==
  IF k > Len(w.vms) THEN [w |-> w, best_vm |-> best_vm]
  ELSE
    LET vm_id == w.vms[k]
        info == VM_GetInfo(w, vm_id)
    IN  IF vm_id \in w.migrating_vms
        THEN FindBest(w, F, k + 1, required_cpu, required_vm, best_vm, lowest_tasks)
        ELSE IF Fails(F, "L141", vm_id)
        THEN FindBest(Refused(w), F, k + 1, required_cpu, required_vm, best_vm, lowest_tasks)
        ELSE IF /\ info.cpu = required_cpu
                /\ info.vm_type = required_vm
                /\ Cardinality(info.active_tasks) < lowest_tasks
        THEN FindBest(w, F, k + 1, required_cpu, required_vm, vm_id,
                      Cardinality(info.active_tasks))
        ELSE FindBest(w, F, k + 1, required_cpu, required_vm, best_vm, lowest_tasks)

\* AnyCpuVM without the return after the first VM that accepts the task.
RECURSIVE AnyCpuVMAll(_, _, _, _, _, _)
AnyCpuVMAll(w, F, k, required_cpu, task_id, priority) ==
  IF k > Len(w.vms) THEN [w |-> w, placed |-> TRUE]
  ELSE
    LET vm_id == w.vms[k]
        info == VM_GetInfo(w, vm_id)
        w1 == VM_AddTask(w, vm_id, task_id, priority, ~Fails(F, "L176", vm_id))
    IN  IF vm_id \in w.migrating_vms \/ info.cpu # required_cpu
        THEN AnyCpuVMAll(w, F, k + 1, required_cpu, task_id, priority)
        ELSE AnyCpuVMAll(w1, F, k + 1, required_cpu, task_id, priority)

\* Second loop over vms: the first non-migrating VM of the required CPU that
\* accepts the task.
RECURSIVE AnyCpuVM(_, _, _, _, _, _)
AnyCpuVM(w, F, k, required_cpu, task_id, priority) ==
  IF k > Len(w.vms) THEN [w |-> w, placed |-> FALSE]
  ELSE
    LET vm_id == w.vms[k]
        info == VM_GetInfo(w, vm_id)
        w1 == VM_AddTask(w, vm_id, task_id, priority, ~Fails(F, "L176", vm_id))
    IN  IF vm_id \in w.migrating_vms
        THEN AnyCpuVM(w, F, k + 1, required_cpu, task_id, priority)
        ELSE IF Fails(F, "L173", vm_id)
        THEN AnyCpuVM(Refused(w), F, k + 1, required_cpu, task_id, priority)
        ELSE IF info.cpu = required_cpu
        THEN IF Fails(F, "L176", vm_id)
             THEN AnyCpuVM(w1, F, k + 1, required_cpu, task_id, priority)
             ELSE [w |-> w1, placed |-> TRUE]
        ELSE AnyCpuVM(w, F, k + 1, required_cpu, task_id, priority)

\* RefillStandby without the test of the size of standby_tier.
RefillStandbyAlways(w, F) ==
  IF w.off_tier # <<>>
  THEN LET off_id == Head(w.off_tier)
           w1 == [w EXCEPT !.off_tier = Tail(@)]
           w2 == Machine_SetState(w1, off_id, "S1", ~Fails(F, "L221", off_id))
       IN  IF Fails(F, "L221", off_id) THEN w2
           ELSE [w2 EXCEPT !.standby_tier = Append(@, off_id)]
  ELSE w

\* RefillStandby with <= for <.
RefillStandbyAtHalf(w, F) ==
  IF Len(w.standby_tier) <= STANDBY_SIZE \div 2 /\ w.off_tier # <<>>
  THEN LET off_id == Head(w.off_tier)
           w1 == [w EXCEPT !.off_tier = Tail(@)]
           w2 == Machine_SetState(w1, off_id, "S1", ~Fails(F, "L221", off_id))
       IN  IF Fails(F, "L221", off_id) THEN w2
           ELSE [w2 EXCEPT !.standby_tier = Append(@, off_id)]
  ELSE w

\* Refill standby tier if needed
RefillStandby(w, F) ==
  IF Len(w.standby_tier) < STANDBY_SIZE \div 2 /\ w.off_tier # <<>>
  THEN LET off_id == Head(w.off_tier)
           w1 == [w EXCEPT !.off_tier = Tail(@)]
           w2 == Machine_SetState(w1, off_id, "S1", ~Fails(F, "L221", off_id))
       IN  IF Fails(F, "L221", off_id) THEN w2
           ELSE [w2 EXCEPT !.standby_tier = Append(@, off_id)]
  ELSE w

\* The body of the standby loop from Machine_SetState on, for a host that has
\* been erased from standby_tier and pushed on running_tier; done means the
\* handler returned, otherwise an exception reached the loop's catch.
ActivateStandby(w, F, machine_id, required_cpu, required_vm, task_id, priority) ==
  LET w2 == Machine_SetState(w, machine_id, "S0", ~Fails(F, "L201", machine_id))
      vm_id == NewVMId(w2)
      w3 == VM_Create(w2, required_vm, required_cpu, ~Fails(F, "L204", machine_id))
      w4 == VM_Attach(w3, vm_id, machine_id, ~Fails(F, "L205", machine_id))
      w5 == [w4 EXCEPT !.vms = Append(@, vm_id)]
      w6 == VM_AddTask(w5, vm_id, task_id, priority, ~Fails(F, "L209", machine_id))
  IN  IF Fails(F, "L201", machine_id) THEN [w |-> w2, done |-> FALSE]
      ELSE IF Fails(F, "L204", machine_id) THEN [w |-> w3, done |-> FALSE]
      ELSE IF Fails(F, "L205", machine_id) THEN [w |-> w4, done |-> FALSE]
      ELSE IF Fails(F, "L209", machine_id) THEN [w |-> w6, done |-> FALSE]
      ELSE [w |-> RefillStandby(w6, F), done |-> TRUE]

\* The iterator has stepped past standby_tier.end(): undefined behaviour.  U is
\* what the build makes of it: NoHost (the process dies), or a host handle g
\* that the read past the end yields; a matching g runs the loop body, whose
\* erase past the end drops the vector's last element, and a body that does not
\* return steps further past the end, where the process dies.
PastEnd(w, F, U, required_cpu, required_vm, task_id, priority) ==
  LET dead == [w |-> [w EXCEPT !.crashed = TRUE, !.ub = TRUE], placed |-> FALSE]
      w1 == [w EXCEPT !.ub = TRUE,
                      !.standby_tier = SubSeq(@, 1, Len(@) - 1),
                      !.running_tier = Append(@, U)]
      r == ActivateStandby(w1, F, U, required_cpu, required_vm, task_id, priority)
  IN  IF U = NoHost \/ Fails(F, "L193", U) THEN dead
      ELSE IF Machine_GetCPUType(U) # required_cpu \/ w.standby_tier = <<>> THEN dead
      ELSE IF r.done THEN [w |-> r.w, placed |-> TRUE]
      ELSE [w |-> [r.w EXCEPT !.crashed = TRUE], placed |-> FALSE]

\* for (auto it = standby_tier.begin(); it != standby_tier.end(); ): it is the
\* position of the iterator, Len + 1 is end().
RECURSIVE PromoteStandby(_, _, _, _, _, _, _, _)
PromoteStandby(w, F, U, it, required_cpu, required_vm, task_id, priority) ==
  IF it = Len(w.standby_tier) + 1 THEN [w |-> w, placed |-> FALSE]
  ELSE IF it > Len(w.standby_tier) + 1
  THEN PastEnd(w, F, U, required_cpu, required_vm, task_id, priority)
  ELSE
    LET machine_id == w.standby_tier[it]
        \* it = standby_tier.erase(it): it keeps its position
        w1 == [w EXCEPT !.standby_tier = RemoveAt(@, it),
                        !.running_tier = Append(@, machine_id)]
        r == ActivateStandby(w1, F, machine_id, required_cpu, required_vm,
                             task_id, priority)
    IN  IF Fails(F, "L193", machine_id)
        THEN PromoteStandby(Refused(w), F, U, it + 1, required_cpu, required_vm,
                            task_id, priority)
        ELSE IF Machine_GetCPUType(machine_id) = required_cpu
        THEN IF r.done THEN [w |-> r.w, placed |-> TRUE]
             ELSE PromoteStandby(r.w, F, U, it + 1, required_cpu, required_vm,
                                 task_id, priority)
        ELSE PromoteStandby(w, F, U, it + 1, required_cpu, required_vm,
                            task_id, priority)

\* Last resort: try any VM
RECURSIVE Emergency(_, _, _, _)
Emergency(w, F, k, task_id) ==
  IF k > Len(w.vms) THEN [w |-> w, placed |-> FALSE]
  ELSE
    LET vm_id == w.vms[k]
        w1 == VM_AddTask(w, vm_id, task_id, "HIGH_PRIORITY", ~Fails(F, "L248", vm_id))
    IN  IF vm_id \in w.migrating_vms THEN Emergency(w, F, k + 1, task_id)
        ELSE IF Fails(F, "L248", vm_id) THEN Emergency(w1, F, k + 1, task_id)
        ELSE [w |-> w1, placed |-> TRUE]

Noted(w, n) == [w EXCEPT !.note = n]

SchedulerNewTask(w, F, U, task_id, req) ==
  IF Fails(F, "L112", task_id) THEN Noted(Refused(w), "error")
  ELSE
    LET required_cpu == req.cpu
        required_vm == req.vm
        priority == PriorityOf(req.sla)
        b == FindBest(w, F, 1, required_cpu, required_vm, UINT_MAX, UINT_MAX)
        hit == b.best_vm # UINT_MAX
        a1 == VM_AddTask(b.w, b.best_vm, task_id, priority, ~Fails(F, "L157", b.best_vm))
        wa == IF hit THEN a1 ELSE b.w
        p2 == AnyCpuVM(wa, F, 1, required_cpu, task_id, priority)
        p3 == IF p2.w.standby_tier # <<>>
              THEN PromoteStandby(p2.w, F, U, 1, required_cpu, required_vm,
                                  task_id, priority)
              ELSE [w |-> p2.w, placed |-> FALSE]
        p4 == Emergency(p3.w, F, 1, task_id)
    IN  IF hit /\ ~Fails(F, "L157", b.best_vm) THEN Noted(a1, "exact")
        ELSE IF p2.placed THEN Noted(p2.w, "isa")
        ELSE IF p3.placed THEN Noted(p3.w, "promote")
        ELSE IF p3.w.crashed THEN Noted(p3.w, "crash")
        ELSE IF p4.placed THEN Noted(p4.w, "emergency")
        ELSE Noted(p4.w, "unplaced")

\* ------------------------------------------------------------ Scheduler::PeriodicCheck
\* Machine_GetInfo(h).active_tasks: the tasks running on the VMs of host h
ActiveTasksOn(w, h) ==
  UNION {w.vmInfo[i].active_tasks : i \in {j \in 1..Len(w.vmInfo) : w.vmInfo[j].machine_id = h}}

\* PStateFor with the top cut at 0.8.
PStateForHighCut(active_tasks, num_cpus) ==
  IF num_cpus = 0 THEN (IF active_tasks > 0 THEN "P0" ELSE "P3")
  ELSE IF 10 * active_tasks > 8 * num_cpus THEN "P0"
  ELSE IF 10 * active_tasks > 4 * num_cpus THEN "P1"
  ELSE IF 10 * active_tasks > 2 * num_cpus THEN "P2"
  ELSE "P3"

\* utilization = active_tasks / num_cpus as a double, against 0.7, 0.4, 0.2;
\* with no core the quotient is inf (above every cut) or NaN (above none)
PStateFor(active_tasks, num_cpus) ==
  IF num_cpus = 0 THEN (IF active_tasks > 0 THEN "P0" ELSE "P3")
  ELSE IF 10 * active_tasks > 7 * num_cpus THEN "P0"
  ELSE IF 10 * active_tasks > 4 * num_cpus THEN "P1"
  ELSE IF 10 * active_tasks > 2 * num_cpus THEN "P2"
  ELSE "P3"

\* for (unsigned i = 0; i < info.num_cpus; i++)
RECURSIVE SetCores(_, _, _, _, _, _)
SetCores(w, F, machine_id, i, num_cpus, p_state) ==
  IF ~(i < num_cpus) THEN w
  ELSE LET ok == ~Fails(F, "L281", machine_id)
           w1 == Machine_SetCorePerformance(w, machine_id, i, p_state, ok)
       IN  IF ok THEN SetCores(w1, F, machine_id, i + 1, num_cpus, p_state) ELSE w1

RECURSIVE SchedulerPeriodicCheck(_, _, _)
SchedulerPeriodicCheck(w, F, k) ==
  IF k > Len(w.running_tier) THEN w
  ELSE
    LET machine_id == w.running_tier[k]
        num_cpus == fleet[machine_id + 1].cores
        p_state == PStateFor(Cardinality(ActiveTasksOn(w, machine_id)), num_cpus)
    IN  IF Fails(F, "L264", machine_id) THEN SchedulerPeriodicCheck(Refused(w), F, k + 1)
        ELSE SchedulerPeriodicCheck(SetCores(w, F, machine_id, 0, num_cpus, p_state),
                                    F, k + 1)

\* ------------------------------------------------------------ Scheduler::TaskComplete
SchedulerTaskComplete(w, F, task_id) ==
  IF Fails(F, "L292", task_id) THEN Refused(w) ELSE w

\* ------------------------------------------------------------ Scheduler::HandleMemoryWarning
\* FindDest without the comparison of the CPU types.
RECURSIVE FindDestAnyCpu(_, _, _, _, _, _, _)
FindDestAnyCpu(w, F, mem, j, vm_id, info, machine_id) ==
  IF j > Len(w.running_tier) THEN [w |-> w, done |-> FALSE]
  ELSE
    LET dest_id == w.running_tier[j]
        ok == ~Fails(F, "L339", dest_id)
        w1 == VM_Migrate(w, vm_id, dest_id, ok)
    IN  IF dest_id = machine_id
        THEN FindDestAnyCpu(w, F, mem, j + 1, vm_id, info, machine_id)
        ELSE IF Fails(F, "L326", dest_id)
        THEN FindDestAnyCpu(Refused(w), F, mem, j + 1, vm_id, info, machine_id)
        ELSE IF mem[dest_id + 1].memory_used > mem[dest_id + 1].memory_size \div 2
        THEN FindDestAnyCpu(w, F, mem, j + 1, vm_id, info, machine_id)
        ELSE IF ok
        THEN [w |-> [w1 EXCEPT !.migrating_vms = @ \cup {vm_id}], done |-> TRUE]
        ELSE FindDestAnyCpu(w1, F, mem, j + 1, vm_id, info, machine_id)

\* for (auto dest_id : running_tier): mem[h + 1] is the memory Machine_GetInfo
\* reports for host h during this callback
RECURSIVE FindDest(_, _, _, _, _, _, _)
FindDest(w, F, mem, j, vm_id, info, machine_id) ==
  IF j > Len(w.running_tier) THEN [w |-> w, done |-> FALSE]
  ELSE
    LET dest_id == w.running_tier[j]
        dest_info == [cpu |-> fleet[dest_id + 1].cpu,
                      memory_used |-> mem[dest_id + 1].memory_used,
                      memory_size |-> mem[dest_id + 1].memory_size]
        ok == ~Fails(F, "L339", dest_id)
        w1 == VM_Migrate(w, vm_id, dest_id, ok)
    IN  IF dest_id = machine_id
        THEN FindDest(w, F, mem, j + 1, vm_id, info, machine_id)
        ELSE IF Fails(F, "L326", dest_id)
        THEN FindDest(Refused(w), F, mem, j + 1, vm_id, info, machine_id)
        ELSE IF dest_info.cpu # info.cpu
        THEN FindDest(w, F, mem, j + 1, vm_id, info, machine_id)
        ELSE IF dest_info.memory_used > dest_info.memory_size \div 2
        THEN FindDest(w, F, mem, j + 1, vm_id, info, machine_id)
        ELSE IF ok
        THEN [w |-> [w1 EXCEPT !.migrating_vms = @ \cup {vm_id}], done |-> TRUE]
        ELSE FindDest(w1, F, mem, j + 1, vm_id, info, machine_id)

\* SchedulerHandleMemoryWarning without the return after a migration.
RECURSIVE SchedulerHandleMemoryWarningAll(_, _, _, _, _)
SchedulerHandleMemoryWarningAll(w, F, mem, k, machine_id) ==
  IF k > Len(w.vms) THEN Noted(w, "unable")
  ELSE
    LET vm_id == w.vms[k]
        info == VM_GetInfo(w, vm_id)
        r == FindDest(w, F, mem, 1, vm_id, info, machine_id)
    IN  IF vm_id \in w.migrating_vms
        THEN SchedulerHandleMemoryWarningAll(w, F, mem, k + 1, machine_id)
        ELSE IF Fails(F, "L311", vm_id)
        THEN SchedulerHandleMemoryWarningAll(Refused(w), F, mem, k + 1, machine_id)
        ELSE IF info.machine_id # machine_id
        THEN SchedulerHandleMemoryWarningAll(w, F, mem, k + 1, machine_id)
        ELSE SchedulerHandleMemoryWarningAll(r.w, F, mem, k + 1, machine_id)

\* for (auto vm_id : vms)
RECURSIVE SchedulerHandleMemoryWarning(_, _, _, _, _)
SchedulerHandleMemoryWarning(w, F, mem, k, machine_id) ==
  IF k > Len(w.vms) THEN Noted(w, "unable")
  ELSE
    LET vm_id == w.vms[k]
        info == VM_GetInfo(w, vm_id)
        r == FindDest(w, F, mem, 1, vm_id, info, machine_id)
    IN  IF vm_id \in w.migrating_vms
        THEN SchedulerHandleMemoryWarning(w, F, mem, k + 1, machine_id)
        ELSE IF Fails(F, "L311", vm_id)
        THEN SchedulerHandleMemoryWarning(Refused(w), F, mem, k + 1, machine_id)
        ELSE IF info.machine_id # machine_id
        THEN SchedulerHandleMemoryWarning(w, F, mem, k + 1, machine_id)
        ELSE IF r.done THEN Noted(r.w, "migrated")
        ELSE SchedulerHandleMemoryWarning(r.w, F, mem, k + 1, machine_id)

\* SchedulerMigrationComplete with the whole set cleared.
SchedulerMigrationCompleteAll(w, vm_id) ==
  [w EXCEPT !.migrating_vms = {}]

\* ------------------------------------------------------------ Scheduler::MigrationComplete
SchedulerMigrationComplete(w, vm_id) ==
  [w EXCEPT !.migrating_vms = @ \ {vm_id}]

\* ------------------------------------------------------------ Scheduler::Shutdown
\* SchedulerShutdown with the loop left at the first VM_Shutdown that throws.
RECURSIVE SchedulerShutdownStop(_, _, _, _)
SchedulerShutdownStop(w, F, vm_copy, k) ==
  IF k > Len(vm_copy) THEN w
  ELSE LET vm_id == vm_copy[k]
       IN  IF vm_id \in w.migrating_vms THEN SchedulerShutdownStop(w, F, vm_copy, k + 1)
           ELSE IF Fails(F, "L369", vm_id) THEN VM_Shutdown(w, vm_id, FALSE)
           ELSE SchedulerShutdownStop(VM_Shutdown(w, vm_id, TRUE), F, vm_copy, k + 1)

\* for (auto vm_id : vm_copy)
RECURSIVE SchedulerShutdown(_, _, _, _)
SchedulerShutdown(w, F, vm_copy, k) ==
  IF k > Len(vm_copy) THEN w
  ELSE LET vm_id == vm_copy[k]
       IN  IF vm_id \in w.migrating_vms THEN SchedulerShutdown(w, F, vm_copy, k + 1)
           ELSE SchedulerShutdown(VM_Shutdown(w, vm_id, ~Fails(F, "L369", vm_id)),
                                  F, vm_copy, k + 1)

\* ------------------------------------------------------------ SLAWarning
SchedulerSLAWarning(w, F, task_id) ==
  LET ok == ~Fails(F, "L425", task_id)
      w1 == Log(w, [op |-> "SetTaskPriority", task |-> task_id,
                    prio |-> "HIGH_PRIORITY", ok |-> ok])
  IN  IF ok THEN w1 ELSE Refused(w1)

\* ------------------------------------------------------------ StateChangeComplete
SchedulerStateChangeComplete(w, machine_id) == w

\* ------------------------------------------------------------ inputs
H(cpu, cores) == [cpu |-> cpu, cores |-> cores, memory_size |-> 8]

\* A fleet and the targets for which the simulator may refuse a call.
\* Twelve running hosts, one of them POWER, and an ARM host in standby.
Fleet13 ==
  [hosts |-> Rep(3, H("X86", 4)) \o <<H("POWER", 4)>> \o Rep(8, H("X86", 4))
             \o <<H("ARM", 4)>>,
   flaky |-> [hosts |-> {0, 12}, vms |-> {0, 12}]]

Fleets == {Fleet13}

\* Twelve running X86 hosts, four standby hosts of four architectures, one
\* host off.
Fleet17 ==
  [hosts |-> Rep(12, H("X86", 4))
             \o <<H("POWER", 4), H("ARM", 4), H("RISCV", 4), H("X86", 4), H("X86", 4)>>,
   flaky |-> [hosts |-> {12, 16}, vms |-> {0}]]

\* Fleet17 with a second host off.
Fleet18 ==
  [hosts |-> Fleet17.hosts \o <<H("X86", 4)>>, flaky |-> Fleet17.flaky]

TierFleets == {Fleet17, Fleet18}

\* The fleets of n hosts whose architectures repeat the pattern p.
Patterns ==
  {<<"X86">>, <<"POWER">>, <<"X86", "POWER">>, <<"ARM", "X86", "POWER", "RISCV">>}

FleetOf(n, p) ==
  [hosts |-> [i \in 1..n |-> H(p[((i - 1) % Len(p)) + 1], 4)],
   flaky |-> [hosts |-> {0}, vms |-> {}]]

WideFleets == {FleetOf(n, p) : n \in 0..MaxHosts, p \in Patterns}

T(cpu, vm, sla) == [cpu |-> cpu, vm |-> vm, sla |-> sla]

TaskKinds ==
  {T("X86", "LINUX", "SLA0"), T("X86", "AIX", "SLA1"), T("POWER", "AIX", "SLA2"),
   T("ARM", "LINUX", "SLA3"), T("RISCV", "LINUX", "SLA1"),
   T("POWER", "AIX", "SLA1")}

\* What Machine_GetInfo reports of memory during one memory warning: the hosts
\* below k are above half of their memory, the others are d away from half.
MemProfile(k, d) ==
  [i \in 1..Len(fleet) |->
     [memory_size |-> fleet[i].memory_size,
      memory_used |-> IF i - 1 < k THEN fleet[i].memory_size \div 2 + 1
                      ELSE fleet[i].memory_size \div 2 + d]]

MemProfiles == {MemProfile(k, d) : k \in 0..MaxWarnHost, d \in {-1, 0, 1}}

\* The refusal sets of one callback: none, or one call site at one target.
FailSets(hostSites, vmSites, taskSites, task_id) ==
  IF nFail < budget.fail
  THEN {{}} \cup {{<<s, h>>} : s \in hostSites, h \in flaky.hosts}
            \cup {{<<s, v>>} : s \in vmSites, v \in flaky.vms}
            \cup {{<<s, task_id>>} : s \in taskSites}
  ELSE {{}}

\* ------------------------------------------------------------ callbacks
Event(op, arg, w) ==
  [op |-> op, arg |-> arg, failed |-> w.failed, note |-> w.note, ub |-> w.ub]

NoEvent == [op |-> "none", arg |-> NoHost, failed |-> FALSE, note |-> "none", ub |-> FALSE]

\* The handler's result becomes the program state.
Commit(w) ==
  /\ vms' = w.vms
  /\ migrating_vms' = w.migrating_vms
  /\ running_tier' = w.running_tier
  /\ standby_tier' = w.standby_tier
  /\ off_tier' = w.off_tier
  /\ vmInfo' = w.vmInfo
  /\ sstate' = w.sstate
  /\ transitioning' = w.transitioning
  /\ cmds' = w.cmds
  /\ nFail' = IF w.failed THEN nFail + 1 ELSE nFail

\* The state after construction, for a fleet of the set FS.
Constructed(FS, b) ==
  /\ phase = "constructed"
  /\ budget = b
  /\ nFail = 0
  /\ \E f \in FS : fleet = f.hosts /\ flaky = f.flaky
  /\ tasks = <<>>
  /\ vmInfo = <<>>
  /\ sstate = [i \in 1..Len(fleet) |-> "S0"]
  /\ transitioning = {}
  /\ nMig = 0
  /\ vms = <<>>
  /\ migrating_vms = {}
  /\ running_tier = <<>>
  /\ standby_tier = <<>>
  /\ off_tier = <<>>
  /\ cmds = <<>>
  /\ ev = NoEvent

Init == Constructed(Fleets, [tasks |-> MaxTasks, mig |-> MaxMigrations, fail |-> MaxFailures])

InitScheduler ==
  /\ phase = "constructed"
  /\ ev = NoEvent
  /\ \E F \in FailSets({"L38", "L50", "L51", "L69", "L86"}, {}, {"L26"}, 0) :
     \E w \in {SchedulerInit(World, F)} :
       Commit(w) /\ ev' = Event("InitScheduler", NoHost, w)
  /\ phase' = "running"
  /\ UNCHANGED <<fleet, flaky, budget, tasks, nMig>>

NewTaskSitesH == {"L193", "L201", "L204", "L205", "L209", "L221"}
NewTaskSitesV == {"L141", "L157", "L173", "L176", "L248"}

HandleNewTask ==
  /\ phase = "running"
  /\ ev = NoEvent
  /\ Len(tasks) < budget.tasks
  /\ \E req \in TaskKinds :
     \E F \in FailSets(NewTaskSitesH, NewTaskSitesV, {"L112"}, Len(tasks) + 1) :
     \E w0 \in {SchedulerNewTask(World, F, NoHost, Len(tasks) + 1, req)} :
     \E U \in (IF w0.ub THEN {NoHost} \cup Hosts ELSE {NoHost}) :
     \E w \in {IF U = NoHost THEN w0
               ELSE SchedulerNewTask(World, F, U, Len(tasks) + 1, req)} :
       /\ tasks' = Append(tasks, req)
       /\ Commit(w)
       /\ ev' = Event("NewTask", Len(tasks) + 1, w)
       /\ phase' = IF w.crashed THEN "crashed" ELSE "running"
  /\ UNCHANGED <<fleet, flaky, budget, nMig>>

\* The tasks some VM is running.
Active == UNION {vmInfo[i].active_tasks : i \in 1..Len(vmInfo)}

\* The simulator has taken the task off its VM before the callback.
HandleTaskCompletion ==
  /\ phase = "running"
  /\ ev = NoEvent
  /\ \E task_id \in Active :
     \E F \in FailSets({}, {}, {"L292"}, task_id) :
     \E sim \in {[World EXCEPT !.vmInfo =
                    [i \in 1..Len(vmInfo) |->
                       [vmInfo[i] EXCEPT !.active_tasks = @ \ {task_id}]]]} :
     \E w \in {SchedulerTaskComplete(sim, F, task_id)} :
       Commit(w) /\ ev' = Event("TaskComplete", task_id, w)
  /\ UNCHANGED <<phase, fleet, flaky, budget, tasks, nMig>>

MemoryWarning ==
  /\ phase = "running"
  /\ ev = NoEvent
  /\ nMig < budget.mig
  /\ \E machine_id \in Hosts \cap 0..MaxWarnHost :
     \E mem \in MemProfiles :
     \E F \in FailSets({"L326", "L339"}, {"L311"}, {}, 0) :
     \E w \in {SchedulerHandleMemoryWarning(World, F, mem, 1, machine_id)} :
       /\ Commit(w)
       /\ ev' = [Event("MemoryWarning", machine_id, w) EXCEPT
                   !.note = IF w.note = "migrated" THEN <<w.note, mem>> ELSE <<w.note>>]
       /\ nMig' = nMig + Cardinality(w.migrating_vms \ migrating_vms)
  /\ UNCHANGED <<phase, fleet, flaky, budget, tasks>>

\* The simulator has moved the VM to its destination before the callback.
MigrationDone ==
  /\ phase = "running"
  /\ ev = NoEvent
  /\ \E vm_id \in migrating_vms \cup {vms[i] : i \in {1} \cap DOMAIN vms} :
     \E sim \in {IF vmInfo[vm_id + 1].dest = NoHost THEN World
                 ELSE [World EXCEPT !.vmInfo[vm_id + 1].machine_id = vmInfo[vm_id + 1].dest,
                                    !.vmInfo[vm_id + 1].dest = NoHost]} :
     \E w \in {SchedulerMigrationComplete(sim, vm_id)} :
       Commit(w) /\ ev' = Event("MigrationDone", vm_id, w)
  /\ UNCHANGED <<phase, fleet, flaky, budget, tasks, nMig>>

SchedulerCheck ==
  /\ phase = "running"
  /\ ev = NoEvent
  /\ \E F \in FailSets({"L264", "L281"}, {}, {}, 0) :
     \E w \in {SchedulerPeriodicCheck(World, F, 1)} :
       Commit(w) /\ ev' = Event("SchedulerCheck", NoHost, w)
  /\ UNCHANGED <<phase, fleet, flaky, budget, tasks, nMig>>

SimulationComplete ==
  /\ phase = "running"
  /\ ev = NoEvent
  /\ \E F \in FailSets({}, {"L369"}, {}, 0) :
     \E w \in {SchedulerShutdown(World, F, vms, 1)} :
       Commit(w) /\ ev' = Event("SimulationComplete", NoHost, w)
  /\ phase' = "done"
  /\ UNCHANGED <<fleet, flaky, budget, tasks, nMig>>

SLAWarning ==
  /\ phase = "running"
  /\ ev = NoEvent
  /\ \E task_id \in Active :
     \E F \in FailSets({}, {}, {"L425"}, task_id) :
     \E w \in {SchedulerSLAWarning(World, F, task_id)} :
       Commit(w) /\ ev' = Event("SLAWarning", task_id, w)
  /\ UNCHANGED <<phase, fleet, flaky, budget, tasks, nMig>>

\* The simulator has completed the state change before the callback.
StateChangeComplete ==
  /\ phase = "running"
  /\ ev = NoEvent
  /\ \E machine_id \in transitioning :
     \E sim \in {[World EXCEPT !.transitioning = @ \ {machine_id}]} :
     \E w \in {SchedulerStateChangeComplete(sim, machine_id)} :
       Commit(w) /\ ev' = Event("StateChangeComplete", machine_id, w)
  /\ UNCHANGED <<phase, fleet, flaky, budget, tasks, nMig>>

\* The simulator takes the commands of the callback that has returned; the
\* next callback starts from there (callbacks run to completion, one at a time).
Returned ==
  /\ ev # NoEvent
  /\ ev' = NoEvent
  /\ cmds' = <<>>
  /\ UNCHANGED <<phase, fleet, tasks, vmInfo, sstate, transitioning, nMig, nFail,
                 flaky, budget, vms, migrating_vms, running_tier, standby_tier,
                 off_tier>>

Next ==
  \/ InitScheduler
  \/ HandleNewTask
  \/ HandleTaskCompletion
  \/ MemoryWarning
  \/ MigrationDone
  \/ SchedulerCheck
  \/ SimulationComplete
  \/ SLAWarning
  \/ StateChangeComplete
  \/ Returned

Spec == Init /\ [][Next]_vars

\* Migrations only: up to MaxInFlight of them, no task.
InitMig ==
  Constructed(Fleets, [tasks |-> 0, mig |-> MaxInFlight, fail |-> MaxFailures])

NextMig ==
  \/ InitScheduler
  \/ MemoryWarning
  \/ MigrationDone
  \/ SimulationComplete
  \/ Returned

SpecMig == InitMig /\ [][NextMig]_vars

\* The tiers: task arrivals on a fleet with standby and off hosts, no migration.
InitTier ==
  Constructed(TierFleets, [tasks |-> MaxTierTasks, mig |-> 0, fail |-> MaxFailures])

NextTier ==
  \/ InitScheduler
  \/ HandleNewTask
  \/ SchedulerCheck
  \/ Returned

SpecTier == InitTier /\ [][NextTier]_vars

\* Start-up on every fleet of the family.
InitWide == Constructed(WideFleets, [tasks |-> 0, mig |-> 0, fail |-> MaxFailures])

NextWide ==
  \/ InitScheduler
  \/ SchedulerCheck
  \/ SimulationComplete
  \/ Returned

SpecInit == InitWide /\ [][NextWide]_vars


\* ------------------------------------------------------------ properties
\* The positions in a command list of the commands that name the operation.
Issued(c, op) == {i \in 1..Len(c) : c[i].op = op}

\* The handler of the last NewTask returned after placing the task.
PlacedNotes == {"exact", "isa", "promote", "emergency"}

InFlightCap == Cardinality(migrating_vms) <= 2

\* C3: after InitScheduler every host of the fleet is in exactly one of
\* running_tier, standby_tier and off_tier: no host is in two tiers or twice
\* in one, and no host is missing from all of them (the tiers are all empty
\* only when Init could not read the size of the fleet).
TierPartition ==
  LET all == running_tier \o standby_tier \o off_tier
  IN  phase # "constructed" =>
        /\ \A i, j \in 1..Len(all) : all[i] = all[j] => i = j
        /\ all # <<>> => Range(all) = Hosts

\* C4: after InitScheduler running_tier never holds more than MAX_RUNNING
\* hosts, promotions included.
RunningBound == Len(running_tier) <= MAX_RUNNING

\* C5: every VM sits on, and is headed to, a host of its own CPU type, and
\* every VM_Attach and VM_Migrate a callback issues names a host of the VM's
\* CPU type.
ArchAgreement ==
  /\ \A i \in 1..Len(vmInfo) :
       /\ vmInfo[i].machine_id # NoHost
            => fleet[vmInfo[i].machine_id + 1].cpu = vmInfo[i].cpu
       /\ vmInfo[i].dest # NoHost => fleet[vmInfo[i].dest + 1].cpu = vmInfo[i].cpu
  /\ \A i \in Issued(cmds, "Attach") \cup Issued(cmds, "Migrate") :
       fleet[cmds[i].host + 1].cpu = vmInfo[cmds[i].vm + 1].cpu

\* C5, the case: a memory warning has sent a VM to a host that comes, in
\* running_tier, after a host of another CPU type with memory to spare.
ArchAgreementWitness ==
  /\ ev.op = "MemoryWarning"
  /\ ev.note[1] = "migrated"
  /\ \E i \in Issued(cmds, "Migrate") : \E j, k \in 1..Len(running_tier) :
       /\ cmds[i].ok
       /\ running_tier[k] = cmds[i].host
       /\ j < k
       /\ running_tier[j] # ev.arg
       /\ fleet[running_tier[j] + 1].cpu # vmInfo[cmds[i].vm + 1].cpu
       /\ ev.note[2][running_tier[j] + 1].memory_used
            <= ev.note[2][running_tier[j] + 1].memory_size \div 2

\* C6: a NewTask that requests S0 for a standby host neither attaches a VM to
\* that host nor adds a task on it in the same callback, that is before the
\* StateChangeComplete of the host.
WakeBeforeUse ==
  ev.op = "NewTask" =>
    \A i \in Issued(cmds, "SetState") :
      cmds[i].s = "S0" =>
        /\ \A j \in Issued(cmds, "Attach") : cmds[j].host # cmds[i].host
        /\ \A j \in Issued(cmds, "AddTask") :
             cmds[j].ok => vmInfo[cmds[j].vm + 1].machine_id # cmds[i].host

\* C7: when every call of InitScheduler succeeds on a fleet of N hosts,
\* running_tier is hosts 0..min(N,12)-1, standby_tier the next min(4, rest)
\* hosts, each requested S1, off_tier the remaining hosts, each requested S5,
\* and there is one VM per running host, attached to it, of the host's CPU
\* type, AIX on a POWER host and LINUX on any other.
InitPartition ==
  (ev.op = "InitScheduler" /\ ~ev.failed) =>
    LET N == Len(fleet)
        r == Min(N, MAX_RUNNING)
        s == Min(N - r, STANDBY_SIZE)
    IN  /\ running_tier = [i \in 1..r |-> i - 1]
        /\ standby_tier = [i \in 1..s |-> r + i - 1]
        /\ off_tier = [i \in 1..(N - r - s) |-> r + s + i - 1]
        /\ SelectSeq(cmds, LAMBDA c : c.op = "SetState")
             = [i \in 1..(N - r) |->
                  [op |-> "SetState", host |-> r + i - 1,
                   s |-> IF i <= s THEN "S1" ELSE "S5", ok |-> TRUE]]
        /\ sstate = [i \in 1..N |-> IF i <= r THEN "S0"
                                    ELSE IF i <= r + s THEN "S1" ELSE "S5"]
        /\ vms = [i \in 1..r |-> i - 1]
        /\ vmInfo = [i \in 1..r |->
                       [vm_type |-> IF fleet[i].cpu = "POWER" THEN "AIX" ELSE "LINUX",
                        cpu |-> fleet[i].cpu, machine_id |-> i - 1, dest |-> NoHost,
                        active_tasks |-> {}, shut |-> FALSE]]

\* C7, the case: InitScheduler has succeeded on 20 X86 hosts: 12 running,
\* 4 standby, 4 off, 12 VMs.
InitPartitionWitness ==
  /\ ev.op = "InitScheduler"
  /\ ~ev.failed
  /\ Len(fleet) = 20
  /\ \A i \in 1..Len(fleet) : fleet[i].cpu = "X86"
  /\ Len(running_tier) = 12
  /\ Len(standby_tier) = 4
  /\ Len(off_tier) = 4
  /\ Len(vmInfo) = 12

\* The running hosts without an active task.
IdleRunning == {h \in Range(running_tier) : ActiveTasksOn(World, h) = {}}

\* C8: when some running host has no active task while running_tier holds
\* more than MIN_RUNNING hosts, the next PeriodicCheck requests S5 for such a
\* host and moves it from running_tier to off_tier.
ConsolidationDemotes ==
  [][(/\ ev'.op = "SchedulerCheck"
      /\ ~ev'.failed
      /\ Len(running_tier) > MIN_RUNNING
      /\ IdleRunning # {})
       => \E h \in IdleRunning :
            /\ h \notin Range(running_tier')
            /\ h \in Range(off_tier')
            /\ \E i \in Issued(cmds', "SetState") :
                 cmds'[i].host = h /\ cmds'[i].s = "S5"]_vars

\* A NewTask whose calls all succeed, for a task whose CPU type no
\* non-migrating registered VM has, with standby host number k the first of
\* that CPU type, and a host in off_tier.
PromotionCase(k) ==
  /\ ev'.op = "NewTask"
  /\ ~ev'.failed
  /\ k \in 1..Len(standby_tier)
  /\ fleet[standby_tier[k] + 1].cpu = tasks'[ev'.arg].cpu
  /\ \A l \in 1..(k - 1) : fleet[standby_tier[l] + 1].cpu # tasks'[ev'.arg].cpu
  /\ \A l \in 1..Len(vms) :
       vms[l] \notin migrating_vms => vmInfo[vms[l] + 1].cpu # tasks'[ev'.arg].cpu
  /\ off_tier # <<>>

\* Standby host number k has gone to running_tier, with a request of S0, and
\* a new VM of the task's VM type and CPU type is attached to it and has the
\* task.
Promoted(k) ==
  LET h == standby_tier[k]
      v == Len(vmInfo)
  IN  /\ running_tier' = Append(running_tier, h)
      /\ \E i \in Issued(cmds', "SetState") :
           cmds'[i] = [op |-> "SetState", host |-> h, s |-> "S0", ok |-> TRUE]
      /\ vms' = Append(vms, v)
      /\ vmInfo' = Append(vmInfo, [vm_type |-> tasks'[ev'.arg].vm,
                                   cpu |-> tasks'[ev'.arg].cpu, machine_id |-> h,
                                   dest |-> NoHost, active_tasks |-> {ev'.arg},
                                   shut |-> FALSE])

\* The head of off_tier has gone to the end of standby_tier, with a request
\* of S1.
Refilled(k) ==
  /\ off_tier' = Tail(off_tier)
  /\ standby_tier' = Append(RemoveAt(standby_tier, k), Head(off_tier))
  /\ \E i \in Issued(cmds', "SetState") :
       cmds'[i] = [op |-> "SetState", host |-> Head(off_tier), s |-> "S1", ok |-> TRUE]

\* Nothing has left off_tier and no S1 is requested.
NotRefilled(k) ==
  /\ off_tier' = off_tier
  /\ standby_tier' = RemoveAt(standby_tier, k)
  /\ \A i \in Issued(cmds', "SetState") : cmds'[i].s # "S1"

PlacementMonotone ==
  [][(ev'.op = "NewTask" /\ ev'.note \in PlacedNotes) =>
       LET gained == {i \in 1..Len(vmInfo') : ev'.arg \in vmInfo'[i].active_tasks}
           added == {i \in Issued(cmds', "AddTask") : cmds'[i].ok}
       IN  /\ Cardinality(added) = 1
           /\ Cardinality(gained) = 1
           /\ \A i \in added : cmds'[i].task = ev'.arg /\ cmds'[i].vm + 1 \in gained
           /\ \A i \in 1..Len(vmInfo') :
                vmInfo'[i].active_tasks \ {ev'.arg}
                  = IF i <= Len(vmInfo) THEN vmInfo[i].active_tasks ELSE {}]_vars

\* C10, the case: a NewTask has placed its task on a VM after another VM had
\* refused it.
PlacementWitness ==
  /\ ev.op = "NewTask"
  /\ ev.note \in PlacedNotes
  /\ \E i, j \in Issued(cmds, "AddTask") : i < j /\ ~cmds[i].ok /\ cmds[j].ok

\* C11: after Shutdown every VM of the registry that is not migrating has
\* been issued VM_Shutdown exactly once, whether or not an earlier
\* VM_Shutdown threw, and no migrating VM has been issued one.
ShutdownSafety ==
  ev.op = "SimulationComplete" =>
    \A k \in 1..Len(vms) :
      Cardinality({i \in Issued(cmds, "Shutdown") : cmds[i].vm = vms[k]})
        = IF vms[k] \in migrating_vms THEN 0 ELSE 1

\* C11, the case: Shutdown has gone on after a VM_Shutdown that threw, over
\* a registry that holds a VM created by a promotion.
ShutdownWitness ==
  /\ ev.op = "SimulationComplete"
  /\ Len(vms) > MAX_RUNNING
  /\ \E i, j \in Issued(cmds, "Shutdown") : i < j /\ ~cmds[i].ok /\ cmds[j].ok

\* C12: MigrationComplete(v) takes exactly v out of migrating_vms, leaves
\* the registry, the tiers and the other migrating VMs as they were and
\* issues no simulator command; for a v that is not migrating it changes
\* nothing, and a second MigrationComplete(v) changes nothing more.
MigrationCompleteExact ==
  [][ev'.op = "MigrationDone" =>
       /\ migrating_vms' = migrating_vms \ {ev'.arg}
       /\ (ev'.arg \notin migrating_vms => migrating_vms' = migrating_vms)
       /\ vms' = vms
       /\ running_tier' = running_tier
       /\ standby_tier' = standby_tier
       /\ off_tier' = off_tier
       /\ cmds' = <<>>
       /\ SchedulerMigrationComplete(World', ev'.arg) = World']_vars

\* C12, the case: one of several migrations has completed: its VM has
\* moved and left migrating_vms, the others are still in it.
MigrationCompleteWitness ==
  /\ ev.op = "MigrationDone"
  /\ ev.arg \notin migrating_vms
  /\ vmInfo[ev.arg + 1].machine_id # ev.arg
  /\ migrating_vms # {}
  /\ nMig = Cardinality(migrating_vms) + 1

\* The SetCorePerformance commands of the last callback for host h, in order.
PerfOf(h) == SelectSeq(cmds, LAMBDA c : c.op = "SetPerf" /\ c.host = h)

CpuMatches(req) ==
  {k \in 1..Len(vms) : vms[k] \notin migrating_vms /\ vmInfo[vms[k] + 1].cpu = req.cpu}

ExactMatches(req) == {k \in CpuMatches(req) : vmInfo[vms[k] + 1].vm_type = req.vm}

\* The number of active tasks of the VM at position k of vms.
LoadAt(k) == Cardinality(vmInfo[vms[k] + 1].active_tasks)

\* C14: when some non-migrating VM has the task's CPU type and VM type (and
\* no call of the NewTask throws), the NewTask issues one command: VM_AddTask
\* of the task to the one of these VMs with the fewest active tasks, the
\* first in vms on a tie, with HIGH_PRIORITY for SLA0, MID_PRIORITY for SLA1
\* and LOW_PRIORITY for SLA2 and SLA3.
FirstPassPlacement ==
  [][(ev'.op = "NewTask" /\ ~ev'.failed /\ ExactMatches(tasks'[ev'.arg]) # {}) =>
       LET req == tasks'[ev'.arg]
           best == CHOOSE k \in ExactMatches(req) :
                     \A l \in ExactMatches(req) :
                       LoadAt(k) < LoadAt(l) \/ (LoadAt(k) = LoadAt(l) /\ k <= l)
       IN  cmds' = <<[op |-> "AddTask", vm |-> vms[best], task |-> ev'.arg,
                      prio |-> CASE req.sla = "SLA0" -> "HIGH_PRIORITY"
                                 [] req.sla = "SLA1" -> "MID_PRIORITY"
                                 [] req.sla \in {"SLA2", "SLA3"} -> "LOW_PRIORITY",
                      ok |-> TRUE]>>]_vars

\* C14, the case: the first pass has placed a task on a VM that comes after
\* a busier VM of the same kind and before an equally idle one.
FirstPassWitness ==
  /\ ev.op = "NewTask"
  /\ ev.note = "exact"
  /\ \E i \in Issued(cmds, "AddTask") : \E u, v, x \in 1..Len(vms) :
       /\ cmds[i].ok /\ vms[v] = cmds[i].vm
       /\ u < v /\ v < x
       /\ {u, x} \subseteq ExactMatches(tasks[ev.arg])
       /\ LoadAt(u) >= LoadAt(v)
       /\ LoadAt(x) = LoadAt(v) - 1

\* C15: when no non-migrating VM has the task's CPU type and VM type but
\* several have its CPU type (and no call of the NewTask throws), the NewTask
\* adds the task to the one of these with the fewest active tasks.
SecondPassLeastLoaded ==
  [][(/\ ev'.op = "NewTask"
      /\ ~ev'.failed
      /\ ExactMatches(tasks'[ev'.arg]) = {}
      /\ Cardinality(CpuMatches(tasks'[ev'.arg])) >= 2)
       => \E i \in Issued(cmds', "AddTask") : \E k \in CpuMatches(tasks'[ev'.arg]) :
            /\ cmds'[i].ok
            /\ cmds'[i].vm = vms[k]
            /\ \A l \in CpuMatches(tasks'[ev'.arg]) : LoadAt(k) <= LoadAt(l)]_vars

\* The hosts the memory warning for host h may send a VM of CPU type cpu to,
\* under the memory readings mem: not h, of that CPU type, and with
\* memory_used strictly below half of memory_size.
FitsBelowHalf(mem, h, cpu) ==
  {k \in 1..Len(running_tier) :
     /\ running_tier[k] # h
     /\ fleet[running_tier[k] + 1].cpu = cpu
     /\ mem[running_tier[k] + 1].memory_used
          < mem[running_tier[k] + 1].memory_size \div 2}

\* C16: the destination of a VM_Migrate issued by a memory warning for host
\* h (none of whose calls throws) is the first host of running_tier that is
\* not h, has the VM's CPU type and has memory_used strictly below
\* memory_size / 2.
DestinationBelowHalf ==
  (ev.op = "MemoryWarning" /\ ~ev.failed) =>
    \A i \in Issued(cmds, "Migrate") :
      \E k \in FitsBelowHalf(ev.note[2], ev.arg, vmInfo[cmds[i].vm + 1].cpu) :
        /\ running_tier[k] = cmds[i].host
        /\ \A l \in FitsBelowHalf(ev.note[2], ev.arg, vmInfo[cmds[i].vm + 1].cpu) : k <= l

\* The positions in vms of the non-migrating VMs attached to host h.
OnHost(h) ==
  {k \in 1..Len(vms) : vms[k] \notin migrating_vms /\ vmInfo[vms[k] + 1].machine_id = h}

\* C17: a memory warning for host h has at most one successful VM_Migrate;
\* every VM_Migrate it issues is for a non-migrating VM attached to h, and
\* when none of its calls throws, for the first such VM in vms only, so that
\* no other VM of h is migrated when no destination fits that one.
MemoryWarningSource ==
  [][ev'.op = "MemoryWarning" =>
       LET done == {i \in Issued(cmds', "Migrate") : cmds'[i].ok}
       IN  /\ Cardinality(done) <= 1
           /\ migrating_vms' = migrating_vms \cup {cmds'[i].vm : i \in done}
           /\ \A i \in Issued(cmds', "Migrate") :
                /\ \E k \in OnHost(ev'.arg) : vms[k] = cmds'[i].vm
                /\ ~ev'.failed =>
                     \A k \in OnHost(ev'.arg) :
                       vms[k] = cmds'[i].vm => \A m \in OnHost(ev'.arg) : k <= m]_vars

\* C17, the case: a warning for a host with two non-migrating VMs has
\* migrated the first of them.
MemoryWarningSourceWitness ==
  /\ ev.op = "MemoryWarning"
  /\ \E i \in Issued(cmds, "Migrate") : \E k, l \in 1..Len(vms) :
       /\ cmds[i].ok
       /\ vms[k] = cmds[i].vm
       /\ k < l
       /\ vmInfo[vms[l] + 1].machine_id = ev.arg
       /\ vms[l] \notin migrating_vms

\* C18: once Init has built the tiers, off_tier loses a host, and
\* standby_tier gains one, only in a NewTask
\* that has promoted a standby host and left fewer than STANDBY_SIZE / 2
\* hosts in standby_tier; the host is the head of off_tier and no other
\* leaves off_tier, S1 is requested for it, and it goes to the end of
\* standby_tier (unless the request throws).
StandbyRefillRule ==
  [][(/\ phase = "running"
       /\ \/ off_tier' # off_tier
          \/ ~(Range(standby_tier') \subseteq Range(standby_tier)))
       => /\ ev'.op = "NewTask"
          /\ off_tier # <<>>
          /\ off_tier' = Tail(off_tier)
          /\ \E k \in 1..Len(standby_tier) :
               /\ running_tier' = Append(running_tier, standby_tier[k])
               /\ Len(standby_tier) - 1 < STANDBY_SIZE \div 2
               /\ \E i \in Issued(cmds', "SetState") :
                    /\ cmds'[i].host = Head(off_tier)
                    /\ cmds'[i].s = "S1"
                    /\ standby_tier' = IF cmds'[i].ok
                                       THEN Append(RemoveAt(standby_tier, k), Head(off_tier))
                                       ELSE RemoveAt(standby_tier, k)
                    /\ \A j \in Issued(cmds', "SetState") :
                         cmds'[j].s = "S1" => j = i]_vars

\* C18, the case: a promotion has left one host in standby_tier and the
\* head of two off hosts has joined it, the other is still off.
StandbyRefillWitness ==
  /\ ev.op = "NewTask"
  /\ ev.note = "promote"
  /\ Len(standby_tier) = 2
  /\ Len(off_tier) = 1
  /\ \E i \in Issued(cmds, "SetState") :
       /\ cmds[i].s = "S1" /\ cmds[i].ok
       /\ cmds[i].host = standby_tier[2]
       /\ cmds[i].host < off_tier[1]

\* C19: a failure inside the tier-promotion pass of NewTask is caught and the
\* scan goes on within standby_tier: it never steps past standby_tier.end().
PromotionScanInBounds ==
  ev.op = "NewTask" => ~ev.ub

\* C20: every VM_Attach target and every VM_Migrate destination is in
\* running_tier when the request is made, no host leaves running_tier, and
\* every registered VM sits on, and migrates to, a host of running_tier.
VMsOnRunningHosts ==
  [][/\ \A i \in Issued(cmds', "Attach") \cup Issued(cmds', "Migrate") :
          cmds'[i].running
     /\ Range(running_tier) \subseteq Range(running_tier')
     /\ \A k \in 1..Len(vms') :
          /\ vmInfo'[vms'[k] + 1].machine_id \in Range(running_tier')
          /\ vmInfo'[vms'[k] + 1].dest \in Range(running_tier') \cup {NoHost}]_vars

\* C20, the case: a NewTask has promoted a standby host and attached a new VM
\* to it, and a MemoryWarning has requested a migration.
VMsOnRunningHostsWitness ==
  /\ ev.op = "MemoryWarning"
  /\ \E i \in Issued(cmds, "Migrate") : cmds[i].ok
  /\ \E k \in 1..Len(vms) :
       /\ vmInfo[vms[k] + 1].machine_id >= MAX_RUNNING
       /\ vmInfo[vms[k] + 1].machine_id \notin Range(standby_tier)

=============================================================================
